---- MODULE Spec2Model ----
(***************************************************************************)
(* A model of LumeSite (core/site.ts): the constructor, the event bus, the  *)
(* build pipeline with its metrics, the update pipeline with its           *)
(* changed-file classification, the concurrent save phase, an update       *)
(* called while a build is saving, and url().  Paths are sequences of      *)
(* one-character strings so that startsWith, slice, includes, join,        *)
(* decodeURI and the _data regular expression are computed character by    *)
(* character, as the code computes them.                                   *)
(***************************************************************************)
EXTENDS Integers, Sequences, FiniteSets, TLC

\* ------------------------------------------------------------------ bounds
MaxListeners == 2      \* listeners registered on the site, all types together
MaxStatic == 2         \* calls of copy()
MaxIgnored == 1        \* calls of ignore() after construction
MaxFiles == 2          \* size of the changed-file set given to update()
MaxPages == 2          \* pages found by the scan of loadDirectory()
MaxResolved == 1       \* calls of url() kept in the history
MaxRegistrations == 3  \* calls of addEventListener() kept in the history

\* --------------------------------------------------------------- variables
VARIABLES
  SEP,          \* the platform's path separator (deps/path.ts SEP)
  options,      \* the merged options: cwd, src, dest, metrics, location, prettyUrls
  listeners,    \* Map<EventType, Set<listener>>: type -> listeners in insertion order
  staticFiles,  \* source.staticFiles: sequence of <<from, to>>
  ignored,      \* source.ignored: sequence of path prefixes
  sourcePages,  \* source.pages: the loaded pages, by source path
  pages,        \* site.pages: the rendered pages
  urls,         \* data.url of the rendered pages, by source path
  kind,         \* which entry point is running: "none", "build", "update", "dispatch"
  pc,           \* the position of the running entry point
  cont,         \* where the caller resumes when the dispatch in progress returns
  dev,          \* the event of the dispatch in progress
  di,           \* index in listeners[dev.type] of the listener being awaited
  files,        \* update(): the changed-file set, in iteration order
  fi,           \* update(): index of the next changed file
  ci,           \* build(): index of the next static mapping to copy
  saveNext,     \* concurrent(): index of the next page to start saving
  inflight,     \* concurrent(): indices of the pages whose save is in flight
  saveFailed,   \* concurrent(): some save has rejected
  waiting,      \* an earlier invocation still awaiting its concurrent()
  log           \* history of the calls made since the entry point was called

config == <<SEP, options, listeners, staticFiles, ignored>>
content == <<sourcePages, pages, urls>>
bus == <<cont, dev, di>>
loop == <<files, fi, ci>>
saving == <<saveNext, inflight, saveFailed, waiting>>
vars == <<config, content, kind, pc, bus, loop, saving, log>>

\* ------------------------------------------------------------------ strings
StartsWith(s, p) == Len(p) <= Len(s) /\ SubSeq(s, 1, Len(p)) = p

Slice(s, n) == SubSeq(s, n + 1, Len(s))

Includes(s, p) == \E i \in 1..(Len(s) - Len(p) + 1) : SubSeq(s, i, i + Len(p) - 1) = p

ReplaceAll(s, c, d) == [i \in 1..Len(s) |-> IF s[i] = c THEN d ELSE s[i]]

\* \w of a JavaScript regular expression
WordChars ==
  { "a", "b", "c", "d", "e", "f", "g", "h", "i", "j", "k", "l", "m",
    "n", "o", "p", "q", "r", "s", "t", "u", "v", "w", "x", "y", "z",
    "A", "B", "C", "D", "E", "F", "G", "H", "I", "J", "K", "L", "M",
    "N", "O", "P", "Q", "R", "S", "T", "U", "V", "W", "X", "Y", "Z",
    "0", "1", "2", "3", "4", "5", "6", "7", "8", "9", "_" }

\* /\/_data/.test(s): the pattern without what follows the name
DataRegexLoose(s, i) ==
  /\ i + 5 <= Len(s)
  /\ SubSeq(s, i, i + 5) = <<"/", "_", "d", "a", "t", "a">>

\* /\/_data(?:\.\w+$|\/)/.test(s)
DataRegexAt(s, i) ==
  /\ i + 6 <= Len(s)
  /\ SubSeq(s, i, i + 5) = <<"/", "_", "d", "a", "t", "a">>
  /\ \/ s[i + 6] = "/"
     \/ /\ s[i + 6] = "."
        /\ i + 7 <= Len(s)
        /\ \A j \in (i + 7)..Len(s) : s[j] \in WordChars

DataRegex(s) == \E i \in 1..Len(s) : DataRegexAt(s, i)

\* -------------------------------------------------------------------- paths
\* The separators join() recognises: "/" everywhere, and "\" too on Windows.
IsSep(c) == c = "/" \/ c = SEP

RECURSIVE Segments(_, _)
\* the segments of s between separators, cur being the segment in progress
Segments(s, cur) ==
  IF s = <<>> THEN <<cur>>
  ELSE IF IsSep(Head(s)) THEN <<cur>> \o Segments(Tail(s), <<>>)
  ELSE Segments(Tail(s), Append(cur, Head(s)))

RECURSIVE Resolve(_, _, _)
\* drops empty and "." segments and resolves ".." against the segments kept
Resolve(segs, kept, abs) ==
  IF segs = <<>> THEN kept
  ELSE LET s == Head(segs) IN
    IF s = <<>> \/ s = <<".">> THEN Resolve(Tail(segs), kept, abs)
    ELSE IF s = <<".", ".">> THEN
      IF kept # <<>> /\ kept[Len(kept)] # <<".", ".">>
      THEN Resolve(Tail(segs), SubSeq(kept, 1, Len(kept) - 1), abs)
      ELSE IF abs THEN Resolve(Tail(segs), kept, abs)
      ELSE Resolve(Tail(segs), Append(kept, s), abs)
    ELSE Resolve(Tail(segs), Append(kept, s), abs)

RECURSIVE Glue(_)
Glue(segs) ==
  IF segs = <<>> THEN <<>>
  ELSE IF Len(segs) = 1 THEN segs[1]
  ELSE segs[1] \o <<SEP>> \o Glue(Tail(segs))

\* normalize() of deps/path.ts, for paths without a drive letter
Normalize(s) ==
  IF s = <<>> THEN <<".">>
  ELSE LET abs == IsSep(s[1])
           trailing == IsSep(s[Len(s)])
           body == Glue(Resolve(Segments(s, <<>>), <<>>, abs))
           inner == IF body = <<>> /\ ~abs THEN <<".">> ELSE body
           tailed == IF body # <<>> /\ trailing THEN inner \o <<SEP>> ELSE inner
       IN IF abs THEN <<SEP>> \o tailed ELSE tailed

\* join(a, b) of deps/path.ts: the non-empty parts glued by SEP, normalized
join(a, b) ==
  IF a = <<>> /\ b = <<>> THEN <<".">>
  ELSE IF a = <<>> THEN Normalize(b)
  ELSE IF b = <<>> THEN Normalize(a)
  ELSE Normalize(a \o <<SEP>> \o b)

\* normalizePath() of core/utils.ts: Windows separators become "/"
normalizePath(path) == IF SEP # "/" THEN ReplaceAll(path, SEP, "/") ELSE path

\* ------------------------------------------------------------------ source
\* source.isStatic(file): the index of the first mapping whose source prefix
\* starts the file, 0 when there is none (the code's false)
isStatic(file) ==
  LET hits == {i \in 1..Len(staticFiles) : StartsWith(file, staticFiles[i][1])}
  IN IF hits = {} THEN 0 ELSE CHOOSE i \in hits : \A j \in hits : i <= j

\* source.isIgnored(path): the path is an ignored path or lies under one
isIgnored(path) ==
  \E i \in 1..Len(ignored) :
    ignored[i] = path \/ StartsWith(path, ignored[i] \o <<"/">>)

\* source.addStaticFile(from, to): a Map keyed by from, in insertion order
addStaticFile(from, to) ==
  IF \E i \in 1..Len(staticFiles) : staticFiles[i][1] = from
  THEN [i \in 1..Len(staticFiles) |->
          IF staticFiles[i][1] = from THEN <<from, to>> ELSE staticFiles[i]]
  ELSE Append(staticFiles, <<from, to>>)

\* source.addIgnoredPath(path): a Set, in insertion order
addIgnoredPath(set, path) ==
  IF \E i \in 1..Len(set) : set[i] = path THEN set ELSE Append(set, path)

\* source.loadFile(file): the entry of that one file is (re)loaded
loadFile(file) ==
  IF \E i \in 1..Len(sourcePages) : sourcePages[i] = file
  THEN sourcePages
  ELSE Append(sourcePages, file)

\* ----------------------------------------------------------------- options
Root == <<"/">>
Cwd == <<"/", "w">>
DefaultSrc == <<".", "/">>
DefaultDest == <<".", "/", "_", "s", "i", "t", "e">>
\* new URL("http://localhost"): its origin and its pathname
DefaultLocation ==
  [origin |-> <<"h", "t", "t", "p", ":", "/", "/", "l">>, pathname |-> <<"/">>]

\* site.src() and site.dest() without further segments
src == join(options.cwd, options.src)
dest == join(options.cwd, options.dest)

\* --------------------------------------------------------------- the events
EventTypes == {"beforeBuild", "beforeSave", "afterBuild", "beforeUpdate", "afterUpdate"}

NoFiles == <<>>
NoPath == <<>>
NoListener == [kind |-> "none", id |-> "-"]
NoEvent == [type |-> "-", files |-> NoFiles]

\* One entry of the history: the operation, and those of its arguments it has.
Entry(op, type, lst, path, to, fs, out) ==
  [op |-> op, type |-> type, lst |-> lst, path |-> path, to |-> to,
   files |-> fs, out |-> out]

EvCall(ev) == Entry("dispatchEvent", ev.type, NoListener, NoPath, NoPath, ev.files, "-")
EvReturn(ev, r) ==
  Entry("return", ev.type, NoListener, NoPath, NoPath, ev.files,
        IF r THEN "true" ELSE "false")
LCall(ev, l) == Entry("listener", ev.type, l, NoPath, NoPath, ev.files, "-")
LDone(ev, l, out) == Entry("settled", ev.type, l, NoPath, NoPath, ev.files, out)
Call(op, path, to, out) == Entry(op, "-", NoListener, path, to, NoFiles, out)
CallAll(op, fs, out) == Entry(op, "-", NoListener, NoPath, NoPath, fs, out)
Metric(op, name) == Entry(op, name, NoListener, NoPath, NoPath, NoFiles, "-")

\* no earlier invocation is suspended
NoneWaiting == [kind |-> "none", inflight |-> {}, failed |-> FALSE]

\* ------------------------------------------------------------- construction
\* new LumeSite(options): the options are merged, the collaborators are
\* empty, and the destination is ignored when dest() starts with src().
InitWith(seps, opts) ==
  /\ SEP \in seps
  /\ options \in opts
  /\ listeners = [t \in {} |-> <<>>]
  /\ staticFiles = <<>>
  /\ ignored = IF StartsWith(dest, src)
               THEN addIgnoredPath(<<>>, join(Root, options.dest))
               ELSE <<>>
  /\ sourcePages = <<>>
  /\ pages = <<>>
  /\ urls = [p \in {} |-> <<>>]
  /\ kind = "none"
  /\ pc = "idle"
  /\ cont = "idle"
  /\ dev = NoEvent
  /\ di = 0
  /\ files = NoFiles
  /\ fi = 0
  /\ ci = 0
  /\ saveNext = 0
  /\ inflight = {}
  /\ saveFailed = FALSE
  /\ waiting = NoneWaiting
  /\ log = <<>>

\* no entry point is running and no save of an earlier run is still in flight
Quiescent == pc \in {"idle", "done", "failed"} /\ inflight = {}

\* ---------------------------------------------------------------- event bus
\* one Set for all the types: the listeners of whichever type has some
ListenersOfAll(type) ==
  IF DOMAIN listeners = {} THEN <<>>
  ELSE listeners[CHOOSE t \in DOMAIN listeners : TRUE]

\* the listeners of a type in insertion order; <<>> stands for the code's
\* undefined (a Set in the Map is never empty)
ListenersOf(type) == IF type \in DOMAIN listeners THEN listeners[type] ELSE <<>>

\* a list in the place of the Set: an element is added each time
SetAddAgain(set, l) == Append(set, l)

\* Set.add: an element already present keeps its place
SetAdd(set, l) == IF \E i \in 1..Len(set) : set[i] = l THEN set ELSE Append(set, l)

\* the Map after addEventListener(type, listener)
Registered(type, listener) ==
  [t \in (DOMAIN listeners) \cup {type} |->
     IF t = type THEN SetAdd(ListenersOf(type), listener) ELSE listeners[t]]

\* addEventListener(type, listener)
AddEventListener(type, listener) ==
  /\ listeners' = Registered(type, listener)
  /\ UNCHANGED <<SEP, options, staticFiles, ignored, content, kind, pc, bus,
                 loop, saving, log>>

\* addEventListener(type, listener), the call kept in the history
AddEventListenerNoted(type, listener) ==
  /\ listeners' = Registered(type, listener)
  /\ log' = Append(log, Entry("addEventListener", type, listener, NoPath, NoPath,
                              NoFiles, "-"))
  /\ UNCHANGED <<SEP, options, staticFiles, ignored, content, kind, pc, bus,
                 loop, saving>>

\* for (const listener of listeners): the i-th listener visited
IterateBackwards(set, i) == set[Len(set) + 1 - i]
Iterate(set, i) == set[i]

\* what a listener's result means: a callable fails only by === false,
\* a named script fails by any falsy result of run()
FailsUnlessTrue(l, out) == out # "true"
Fails(l, out) ==
  IF l.kind = "name" THEN out # "true" ELSE out = "false"

\* the caller of dispatchEvent awaits it and discards its result
ResumeUnlessVeto(result, next) == IF result THEN next ELSE "done"
ResumeAt(result, next) == next

\* dispatchEvent from listener i on, lg being the history so far: without a
\* further listener it returns true to the caller, otherwise listener i is
\* called and awaited.
DispatchFrom(ev, i, next, lg) ==
  IF i > Len(ListenersOf(ev.type))
  THEN /\ pc' = ResumeAt(TRUE, next)
       /\ log' = Append(lg, EvReturn(ev, TRUE))
       /\ cont' = "idle"
       /\ dev' = NoEvent
       /\ di' = 0
  ELSE /\ pc' = "dispatch"
       /\ log' = Append(lg, LCall(ev, Iterate(ListenersOf(ev.type), i)))
       /\ cont' = next
       /\ dev' = ev
       /\ di' = i

\* dispatchEvent(event) called with the history lg
Dispatch(ev, next, lg) == DispatchFrom(ev, 1, next, Append(lg, EvCall(ev)))

\* a dispatch that catches what a listener throws and reports false
ListenerSettleSwallows(out) ==
  /\ pc = "dispatch"
  /\ LET l == Iterate(ListenersOf(dev.type), di)
         lg == Append(log, LDone(dev, l, out))
     IN /\ l.kind = "name" => out # "undefined"
        /\ IF out = "throw" \/ Fails(l, out)
           THEN /\ pc' = ResumeAt(FALSE, cont)
                /\ log' = Append(lg, EvReturn(dev, FALSE))
                /\ cont' = "idle"
                /\ dev' = NoEvent
                /\ di' = 0
           ELSE DispatchFrom(dev, di + 1, cont, lg)
  /\ UNCHANGED <<config, content, kind, loop, saving>>

\* the awaited listener settles with out
ListenerSettle(out) ==
  /\ pc = "dispatch"
  /\ LET l == Iterate(ListenersOf(dev.type), di)
         lg == Append(log, LDone(dev, l, out))
     IN /\ l.kind = "name" => out # "undefined"
        /\ IF out = "throw"
           THEN /\ pc' = "failed"
                /\ log' = lg
                /\ cont' = "idle"
                /\ dev' = NoEvent
                /\ di' = 0
           ELSE IF Fails(l, out)
           THEN /\ pc' = ResumeAt(FALSE, cont)
                /\ log' = Append(lg, EvReturn(dev, FALSE))
                /\ cont' = "idle"
                /\ dev' = NoEvent
                /\ di' = 0
           ELSE DispatchFrom(dev, di + 1, cont, lg)
  /\ UNCHANGED <<config, content, kind, loop, saving>>

\* site.dispatchEvent(event) called from outside the pipelines, the history
\* starting from lg
DispatchEventAfter(ev, lg) ==
  /\ Quiescent
  /\ kind' = "dispatch"
  /\ Dispatch(ev, "done", lg)
  /\ files' = NoFiles
  /\ fi' = 0
  /\ ci' = 0
  /\ saveNext' = 0
  /\ saveFailed' = FALSE
  /\ UNCHANGED <<config, content, inflight, waiting>>

\* site.dispatchEvent(event) called from outside the pipelines
DispatchEvent(ev) ==
  /\ Quiescent
  /\ kind' = "dispatch"
  /\ Dispatch(ev, "done", <<>>)
  /\ files' = NoFiles
  /\ fi' = 0
  /\ ci' = 0
  /\ saveNext' = 0
  /\ saveFailed' = FALSE
  /\ UNCHANGED <<config, content, inflight, waiting>>

\* ------------------------------------------------------------- configuration
\* site.copy(from, to)
Copy(from, to) ==
  /\ staticFiles' = addStaticFile(join(Root, from), join(Root, to))
  /\ UNCHANGED <<SEP, options, listeners, ignored, content, kind, pc, bus, loop,
                 saving, log>>

\* site.ignore(path)
Ignore(path) ==
  /\ ignored' = addIgnoredPath(ignored, join(Root, path))
  /\ UNCHANGED <<SEP, options, listeners, staticFiles, content, kind, pc, bus,
                 loop, saving, log>>

\* -------------------------------------------------------------------- build
BuildMetric == "Build (entire site)"
CopyMetric == "Copy (all files)"
LoadMetric == "Load (all pages)"
RenderMetric == "Preprocess + render + process (all pages)"
SaveMetric == "Save (all pages)"

Ev(type) == [type |-> type, files |-> NoFiles]
EvFiles(type, fs) == [type |-> type, files |-> fs]

\* an awaited call that rejects ends the entry point
Abort(lg) ==
  /\ pc' = "failed"
  /\ log' = lg

\* build(): up to the first listener of beforeBuild, or to its return
Build ==
  /\ Quiescent
  /\ kind' = "build"
  /\ Dispatch(Ev("beforeBuild"), "clear", <<Metric("metrics.start", BuildMetric)>>)
  /\ files' = NoFiles
  /\ fi' = 0
  /\ ci' = 0
  /\ saveNext' = 0
  /\ saveFailed' = FALSE
  /\ UNCHANGED <<config, content, inflight, waiting>>

\* build() with the copy loop left untimed: no metric is started after clear()
ClearUntimedCopy(out) ==
  /\ pc = "clear"
  /\ LET lg == Append(log, Call("clear", NoPath, NoPath, out)) IN
     IF out = "throw" THEN Abort(lg) /\ UNCHANGED ci
     ELSE IF staticFiles = <<>>
     THEN /\ pc' = "load"
          /\ log' = Append(lg, Metric("metrics.start", LoadMetric))
          /\ UNCHANGED ci
     ELSE /\ pc' = "copy"
          /\ log' = lg
          /\ ci' = 1
  /\ UNCHANGED <<config, content, kind, bus, files, fi, saving>>

\* await this.clear(), then the copy metric is started and the loop entered
Clear(out) ==
  /\ pc = "clear"
  /\ LET lg == Append(log, Call("clear", NoPath, NoPath, out)) IN
     IF out = "throw" THEN Abort(lg) /\ UNCHANGED ci
     ELSE IF staticFiles = <<>>
     THEN /\ pc' = "load"
          /\ log' = lg \o <<Metric("metrics.start", CopyMetric),
                            Metric("metrics.stop", CopyMetric),
                            Metric("metrics.start", LoadMetric)>>
          /\ UNCHANGED ci
     ELSE /\ pc' = "copy"
          /\ log' = Append(lg, Metric("metrics.start", CopyMetric))
          /\ ci' = 1
  /\ UNCHANGED <<config, content, kind, bus, files, fi, saving>>

\* await this.emitter.copyFile(from, to) for the mapping ci
CopyFile(out) ==
  /\ pc = "copy"
  /\ LET e == staticFiles[ci]
         lg == Append(log, Call("copyFile", e[1], e[2], out)) IN
     IF out = "throw" THEN Abort(lg) /\ UNCHANGED ci
     ELSE IF ci < Len(staticFiles)
     THEN /\ pc' = "copy"
          /\ log' = lg
          /\ ci' = ci + 1
     ELSE /\ pc' = "load"
          /\ log' = lg \o <<Metric("metrics.stop", CopyMetric),
                            Metric("metrics.start", LoadMetric)>>
          /\ UNCHANGED ci
  /\ UNCHANGED <<config, content, kind, bus, files, fi, saving>>

\* await this.source.loadDirectory(): the scan finds the pages of listing
LoadDirectory(listing, out) ==
  /\ pc = "load"
  /\ LET lg == Append(log, CallAll("loadDirectory", NoFiles, out)) IN
     IF out = "throw" THEN Abort(lg) /\ UNCHANGED sourcePages
     ELSE /\ pc' = "render"
          /\ sourcePages' = listing
          /\ log' = lg \o <<Metric("metrics.stop", LoadMetric),
                            Metric("metrics.start", RenderMetric)>>
  /\ UNCHANGED <<config, pages, urls, kind, bus, loop, saving>>

\* the url the renderer resolves for a page: the source path without its
\* extension, as a directory when prettyUrls is set and as an html file
\* otherwise, with "/" for separators
LastDot(p) ==
  LET dots == {i \in 1..Len(p) : p[i] = "."}
  IN IF dots = {} THEN Len(p) + 1 ELSE CHOOSE i \in dots : \A j \in dots : j <= i

PageUrl(p) ==
  normalizePath(SubSeq(p, 1, LastDot(p) - 1))
    \o (IF options.prettyUrls THEN <<"/">> ELSE <<".", "h", "t", "m", "l">>)

\* data.url of every page the renderer was given
RenderedUrls(ps) == [p \in {ps[i] : i \in 1..Len(ps)} |-> PageUrl(p)]

\* the pages handed to the renderer: this.source.pages, all of them
RenderReloaded ==
  LET Reloaded(p) == \E i \in 1..Len(files) : files[i] = p
  IN IF kind = "update" THEN SelectSeq(sourcePages, Reloaded) ELSE sourcePages
RenderInput == sourcePages

\* build() and update() with the beforeSave dispatch left out
BuildPagesThenSave(out) ==
  /\ pc = "render"
  /\ LET lg == Append(log, CallAll("buildPages", RenderInput, out)) IN
     IF out = "throw"
     THEN Abort(lg) /\ UNCHANGED <<pages, urls>>
     ELSE /\ pages' = RenderInput
          /\ urls' = RenderedUrls(RenderInput)
          /\ pc' = "saveBegin"
          /\ log' = lg
  /\ UNCHANGED <<config, sourcePages, kind, bus, loop, saving>>

\* await this.renderer.buildPages(this.source.pages), in build() and update();
\* the renderer leaves the rendered pages in site.pages
BuildPages(out) ==
  /\ pc = "render"
  /\ LET lg == Append(log, CallAll("buildPages", RenderInput, out)) IN
     IF out = "throw"
     THEN Abort(lg) /\ UNCHANGED <<pages, urls, bus>>
     ELSE /\ pages' = RenderInput
          /\ urls' = RenderedUrls(RenderInput)
          /\ Dispatch(Ev("beforeSave"), "saveBegin",
                      IF kind = "build"
                      THEN Append(lg, Metric("metrics.stop", RenderMetric))
                      ELSE lg)
  /\ UNCHANGED <<config, sourcePages, kind, loop, saving>>

\* ------------------------------------------------------- concurrent emission
\* the default limit of concurrent()
ConcurrentLimit == 200

\* concurrent(this.pages, ...) is called
SaveBegin ==
  /\ pc = "saveBegin"
  /\ pc' = "save"
  /\ saveNext' = 1
  /\ inflight' = {}
  /\ saveFailed' = FALSE
  /\ log' = IF kind = "build" THEN Append(log, Metric("metrics.start", SaveMetric))
            ELSE log
  /\ UNCHANGED <<config, content, kind, bus, loop, waiting>>

\* the loop of concurrent() starts the save of the next page
SaveStart ==
  /\ pc = "save"
  /\ saveNext <= Len(pages)
  /\ Cardinality(inflight) < ConcurrentLimit
  /\ inflight' = inflight \cup {pages[saveNext]}
  /\ saveNext' = saveNext + 1
  /\ log' = Append(log, Call("savePage", pages[saveNext], NoPath, "-"))
  /\ UNCHANGED <<config, content, kind, pc, bus, loop, saveFailed, waiting>>

\* a save in flight settles
SaveSettle(page, out) ==
  /\ page \in inflight
  /\ inflight' = inflight \ {page}
  /\ saveFailed' = (saveFailed \/ out = "throw")
  /\ log' = Append(log, Call("saved", page, NoPath, out))
  /\ UNCHANGED <<config, content, kind, pc, bus, loop, saveNext, waiting>>

\* update() dispatching afterUpdate without the changed files
SaveJoinDropsFiles ==
  /\ pc = "save"
  /\ saveNext > Len(pages)
  /\ IF saveFailed
     THEN Abort(log) /\ UNCHANGED bus
     ELSE /\ inflight = {}
          /\ IF kind = "build"
             THEN Dispatch(Ev("afterBuild"), "flush",
                           log \o <<Metric("metrics.stop", SaveMetric),
                                    Metric("metrics.stop", BuildMetric)>>)
             ELSE Dispatch(Ev("afterUpdate"), "done", log)
  /\ UNCHANGED <<config, content, kind, loop, saving>>

\* build() and update() not awaiting concurrent(): the event after the saves
\* is dispatched as soon as the last save has been started
SaveJoinNoAwait ==
  /\ pc = "save"
  /\ saveNext > Len(pages)
  /\ IF kind = "build"
     THEN Dispatch(Ev("afterBuild"), "flush",
                   log \o <<Metric("metrics.stop", SaveMetric),
                            Metric("metrics.stop", BuildMetric)>>)
     ELSE Dispatch(EvFiles("afterUpdate", files), "done", log)
  /\ UNCHANGED <<config, content, kind, loop, saving>>

\* await Promise.all(executing), after the loop: it rejects once a save has
\* rejected and resolves when every save has resolved
SaveJoin ==
  /\ pc = "save"
  /\ saveNext > Len(pages)
  /\ IF saveFailed
     THEN Abort(log) /\ UNCHANGED bus
     ELSE /\ inflight = {}
          /\ IF kind = "build"
             THEN Dispatch(Ev("afterBuild"), "flush",
                           log \o <<Metric("metrics.stop", SaveMetric),
                                    Metric("metrics.stop", BuildMetric)>>)
             ELSE Dispatch(EvFiles("afterUpdate", files), "done", log)
  /\ UNCHANGED <<config, content, kind, loop, saving>>

\* the collected metrics are saved, printed, or left alone
MetricsFlush(out) ==
  /\ pc = "flush"
  /\ IF options.metrics = "save"
     THEN LET lg == Append(log, Call("metrics.save", options.cwd, NoPath, out)) IN
          IF out = "throw" THEN Abort(lg) ELSE pc' = "done" /\ log' = lg
     ELSE /\ out = "ok"
          /\ pc' = "done"
          /\ log' = IF options.metrics = "print"
                    THEN Append(log, Call("metrics.print", NoPath, NoPath, "ok"))
                    ELSE log
  /\ UNCHANGED <<config, content, kind, bus, loop, saving>>

\* ------------------------------------------------------------------- update
\* update() with the ignored check ahead of the static check
ClassifyIgnoredFirst(file) ==
  IF isIgnored(file) THEN "ignored"
  ELSE IF isStatic(file) # 0 THEN "static"
  ELSE IF DataRegex(normalizePath(file)) THEN "data"
  ELSE IF Includes(normalizePath(file), <<"/", "_">>)
          \/ Includes(normalizePath(file), <<"/", ".">>) THEN "hidden"
  ELSE "default"

\* the branch update() takes for a changed file, in the order of its checks
Classify(file) ==
  IF isStatic(file) # 0 THEN "static"
  ELSE IF isIgnored(file) THEN "ignored"
  ELSE IF DataRegex(normalizePath(file)) THEN "data"
  ELSE IF Includes(normalizePath(file), <<"/", "_">>)
          \/ Includes(normalizePath(file), <<"/", ".">>) THEN "hidden"
  ELSE "default"

\* where the single file of a static mapping is copied to
CopyTargetWhole(file, from, to) == join(to, file)
CopyTarget(file, from, to) == join(to, Slice(file, Len(from)))

\* the branches of update() that end in this.source.loadFile(file)
ReloadsHidden(class) == class \in {"data", "hidden", "default"}
Reloads(class) == class \in {"data", "default"}

\* update(files): up to the first listener of beforeUpdate, or to its return
Update(fs) ==
  /\ Quiescent
  /\ kind' = "update"
  /\ files' = fs
  /\ fi' = 1
  /\ Dispatch(EvFiles("beforeUpdate", fs), IF fs = <<>> THEN "render" ELSE "files", <<>>)
  /\ ci' = 0
  /\ saveNext' = 0
  /\ saveFailed' = FALSE
  /\ UNCHANGED <<config, content, inflight, waiting>>

\* one turn of the loop over the changed files
UpdateFile(out) ==
  /\ pc = "files"
  /\ LET file == files[fi]
         class == Classify(file)
         here == Append(log, Call("file", file, NoPath, class))
         next == IF fi < Len(files) THEN "files" ELSE "render"
     IN
     IF class = "static"
     THEN LET e == staticFiles[isStatic(file)]
              lg == Append(here, Call("copyFile", file, CopyTarget(file, e[1], e[2]), out))
          IN /\ IF out = "throw" THEN Abort(lg) ELSE pc' = next /\ log' = lg
             /\ UNCHANGED sourcePages
     ELSE IF Reloads(class)
     THEN LET lg == Append(here, Call("loadFile", file, NoPath, out))
          IN IF out = "throw" THEN Abort(lg) /\ UNCHANGED sourcePages
             ELSE pc' = next /\ log' = lg /\ sourcePages' = loadFile(file)
     ELSE /\ out = "ok"
          /\ pc' = next
          /\ log' = here
          /\ UNCHANGED sourcePages
  /\ fi' = fi + 1
  /\ UNCHANGED <<config, pages, urls, kind, bus, files, ci, saving>>

\* ------------------------------------------------------ overlapping invocations
\* update(files) is called while the invocation before it awaits its
\* concurrent(), every save started and some still in flight: nothing in
\* build() or update() looks whether another invocation is under way. The
\* earlier invocation is set aside with its saves, and the new one runs.
UpdateDuringSaves(fs) ==
  /\ pc = "save"
  /\ saveNext > Len(pages)
  /\ inflight # {}
  /\ waiting = NoneWaiting
  /\ waiting' = [kind |-> kind, inflight |-> inflight, failed |-> saveFailed]
  /\ inflight' = {}
  /\ kind' = "update"
  /\ files' = fs
  /\ fi' = 1
  /\ Dispatch(EvFiles("beforeUpdate", fs), IF fs = <<>> THEN "render" ELSE "files", <<>>)
  /\ ci' = 0
  /\ saveNext' = 0
  /\ saveFailed' = FALSE
  /\ UNCHANGED <<config, content>>

\* a save of the invocation set aside settles
WaitingSettle(page, out) ==
  /\ page \in waiting.inflight
  /\ waiting' = [waiting EXCEPT !.inflight = @ \ {page},
                                !.failed = @ \/ out = "throw"]
  /\ log' = Append(log, Call("saved", page, NoPath, out))
  /\ UNCHANGED <<config, content, kind, pc, bus, loop, saveNext, inflight, saveFailed>>

\* the concurrent() of the invocation set aside settles, and the invocation
\* runs to its end: no listener is awaited, for none is registered
WaitingResume ==
  /\ waiting.kind # "none"
  /\ waiting.failed \/ waiting.inflight = {}
  /\ listeners = [t \in {} |-> <<>>]
  /\ options.metrics = "off"
  /\ waiting' = NoneWaiting
  /\ log' = IF waiting.failed THEN log
            ELSE LET ev == IF waiting.kind = "build" THEN Ev("afterBuild")
                           ELSE EvFiles("afterUpdate", files)
                 IN log \o <<EvCall(ev), EvReturn(ev, TRUE)>>
  /\ UNCHANGED <<config, content, kind, pc, bus, loop, saveNext, inflight, saveFailed>>

\* ---------------------------------------------------------------------- url
\* posix.join(a, b) of deps/path.ts: "/" is the only separator
RECURSIVE PosixSegments(_, _)
PosixSegments(s, cur) ==
  IF s = <<>> THEN <<cur>>
  ELSE IF Head(s) = "/" THEN <<cur>> \o PosixSegments(Tail(s), <<>>)
  ELSE PosixSegments(Tail(s), Append(cur, Head(s)))

RECURSIVE PosixGlue(_)
PosixGlue(segs) ==
  IF segs = <<>> THEN <<>>
  ELSE IF Len(segs) = 1 THEN segs[1]
  ELSE segs[1] \o <<"/">> \o PosixGlue(Tail(segs))

PosixNormalize(s) ==
  IF s = <<>> THEN <<".">>
  ELSE LET abs == s[1] = "/"
           trailing == s[Len(s)] = "/"
           body == PosixGlue(Resolve(PosixSegments(s, <<>>), <<>>, abs))
           inner == IF body = <<>> /\ ~abs THEN <<".">> ELSE body
           tailed == IF body # <<>> /\ trailing THEN inner \o <<"/">> ELSE inner
       IN IF abs THEN <<"/">> \o tailed ELSE tailed

PosixJoin(a, b) ==
  IF a = <<>> /\ b = <<>> THEN <<".">>
  ELSE IF a = <<>> THEN PosixNormalize(b)
  ELSE IF b = <<>> THEN PosixNormalize(a)
  ELSE PosixNormalize(a \o <<"/">> \o b)

\* decodeURI(s), for escapes of printable ASCII characters
HexDigits == <<"0", "1", "2", "3", "4", "5", "6", "7", "8", "9",
               "A", "B", "C", "D", "E", "F">>
LowerHex == <<"0", "1", "2", "3", "4", "5", "6", "7", "8", "9",
              "a", "b", "c", "d", "e", "f">>
IsHex(c) == \E i \in 1..16 : HexDigits[i] = c \/ LowerHex[i] = c
HexVal(c) == (CHOOSE i \in 1..16 : HexDigits[i] = c \/ LowerHex[i] = c) - 1

\* the characters of codes 32 to 126 (code 96 is written "grave")
Ascii ==
  <<
     " ", "!", "\"", "#", "$", "%", "&", "'", "(", ")", "*", "+",
     ",", "-", ".", "/", "0", "1", "2", "3", "4", "5", "6", "7",
     "8", "9", ":", ";", "<", "=", ">", "?", "@", "A", "B", "C",
     "D", "E", "F", "G", "H", "I", "J", "K", "L", "M", "N", "O",
     "P", "Q", "R", "S", "T", "U", "V", "W", "X", "Y", "Z", "[",
     "\\", "]", "^", "_", "grave", "a", "b", "c", "d", "e", "f", "g",
     "h", "i", "j", "k", "l", "m", "n", "o", "p", "q", "r", "s",
     "t", "u", "v", "w", "x", "y", "z", "{", "|", "}", "~"
  >>

\* the characters decodeURI leaves escaped
UriReserved == {";", "/", "?", ":", "@", "&", "=", "+", "$", ",", "#"}

\* an escape at the head of s that decodeURI can decode
EscapeAt(s) ==
  /\ Len(s) >= 3
  /\ s[1] = "%"
  /\ IsHex(s[2]) /\ IsHex(s[3])
  /\ 16 * HexVal(s[2]) + HexVal(s[3]) \in 32..126

RECURSIVE Malformed(_)
\* decodeURI(s) throws a URIError
Malformed(s) ==
  IF s = <<>> THEN FALSE
  ELSE IF Head(s) # "%" THEN Malformed(Tail(s))
  ELSE IF EscapeAt(s) THEN Malformed(SubSeq(s, 4, Len(s)))
  ELSE TRUE

RECURSIVE decodeURI(_)
decodeURI(s) ==
  IF s = <<>> THEN <<>>
  ELSE IF EscapeAt(s)
  THEN LET c == Ascii[16 * HexVal(s[2]) + HexVal(s[3]) - 31]
       IN (IF c \in UriReserved THEN SubSeq(s, 1, 3) ELSE <<c>>)
            \o decodeURI(SubSeq(s, 4, Len(s)))
  ELSE <<Head(s)>> \o decodeURI(Tail(s))

\* new URL(path) succeeds: the path begins with a scheme
Letters == WordChars \ {"0", "1", "2", "3", "4", "5", "6", "7", "8", "9", "_"}
HasScheme(path) ==
  \E i \in 2..Len(path) :
    /\ path[i] = ":"
    /\ path[1] \in Letters
    /\ \A j \in 2..(i - 1) : path[j] \in (WordChars \ {"_"}) \cup {"+", "-", "."}

\* new URL(path).href, for a lower-case http URL without characters to
\* escape: an empty path becomes "/"
Href(path) ==
  LET rest == SubSeq(path, 8, Len(path))
  IN IF StartsWith(path, <<"h", "t", "t", "p", ":", "/", "/">>)
        /\ \A i \in 1..Len(rest) : rest[i] # "/"
     THEN path \o <<"/">>
     ELSE path

\* what a call of url() comes to: a value returned or an exception thrown
Returned(value) == [out |-> "ok", type |-> "-", value |-> value]
Thrown(type, path) == [out |-> "throw", type |-> type, value |-> path]

SourceNotFound == "Source file not found"
URIError == "URIError"

\* url() putting the base path in front of every path
WithBaseAlways(path, absolute) ==
  LET served == PosixJoin(options.location.pathname, path)
  IN [out |-> "ok", type |-> "-",
      value |-> IF absolute THEN options.location.origin \o served ELSE served]

\* the end of url(): the base path is put in front of a path that does not
\* start with it, and the origin in front of that when absolute is asked
WithBase(path, absolute) ==
  LET base == options.location.pathname
      served == IF ~StartsWith(path, base) THEN PosixJoin(base, path) ELSE path
  IN Returned(IF absolute THEN options.location.origin \o served ELSE served)

\* this.pages.find((page) => page.src.path + page.src.ext === path)
FindPage(path) ==
  LET hits == {k \in 1..Len(pages) : pages[k] = path}
  IN IF hits = {} THEN 0 ELSE CHOOSE k \in hits : \A j \in hits : k <= j

\* url() with the static mappings searched before the pages
UrlOfSourceStaticFirst(path, absolute) ==
  IF isStatic(path) # 0
  THEN LET e == staticFiles[isStatic(path)]
       IN WithBase(normalizePath(join(e[2], Slice(path, Len(e[1])))), absolute)
  ELSE IF FindPage(path) # 0 THEN WithBase(urls[pages[FindPage(path)]], absolute)
  ELSE Thrown(SourceNotFound, path)

\* url() for a path with the marker "~/", once decoded: a page, else a static
\* mapping, else the exception
UrlOfSource(path, absolute) ==
  IF FindPage(path) # 0 THEN WithBase(urls[pages[FindPage(path)]], absolute)
  ELSE IF isStatic(path) # 0
  THEN LET e == staticFiles[isStatic(path)]
       IN WithBase(normalizePath(join(e[2], Slice(path, Len(e[1])))), absolute)
  ELSE Thrown(SourceNotFound, path)

\* url() removing the whole marker "~/" from the path
SourcePathBare(path) == ReplaceAll(Slice(path, 2), "/", SEP)
\* path.slice(1).replaceAll("/", SEP)
SourcePath(path) == ReplaceAll(Slice(path, 1), "/", SEP)

\* url(path, absolute)
url(path, absolute) ==
  IF \/ StartsWith(path, <<".", "/">>) \/ StartsWith(path, <<".", ".", "/">>)
     \/ StartsWith(path, <<"?">>) \/ StartsWith(path, <<"#">>)
     \/ StartsWith(path, <<"/", "/">>)
  THEN Returned(path)
  ELSE IF StartsWith(path, <<"~", "/">>)
  THEN IF Malformed(SourcePath(path)) THEN Thrown(URIError, NoPath)
       ELSE UrlOfSource(decodeURI(SourcePath(path)), absolute)
  ELSE IF HasScheme(path) THEN Returned(Href(path))
  ELSE WithBase(path, absolute)

Absolute(absolute) == [kind |-> "absolute", id |-> IF absolute THEN "yes" ELSE "no"]

\* the calls of url() in the history
Resolved == {i \in 1..Len(log) : log[i].op = "url"}

\* site.url(path, absolute) is called; the history keeps the call and what it
\* came to
Url(path, absolute) ==
  /\ Cardinality(Resolved) < MaxResolved
  /\ LET r == url(path, absolute)
     IN log' = Append(log, Entry("url", r.type, Absolute(absolute), path, r.value,
                                 NoFiles, r.out))
  /\ UNCHANGED <<config, content, kind, pc, bus, loop, saving>>

\* ------------------------------------------------------------------- inputs
\* listeners: two callables and one named script
F1 == [kind |-> "fn", id |-> "f1"]
F2 == [kind |-> "fn", id |-> "f2"]
Cmd == [kind |-> "name", id |-> "cmd"]

\* what an awaited listener can settle with
Outcomes == {"true", "false", "undefined", "throw"}

\* what an awaited collaborator call can settle with
Results == {"ok", "throw"}

\* pages of the source tree
PageA == <<"/", "a", ".", "m">>
PageB == <<"/", "b", "/", "c", ".", "m">>
PageC == <<"/", "c", ".", "m">>
PageD == <<"/", "d", ".", "m">>

\* changed files
FStatic == <<"/", "s", "/", "l", ".", "p">>
FStaticish == <<"/", "s", "x", "/", "y">>
FSite == <<"/", "_", "s", "i", "t", "e", "/", "i">>
FDataDir == <<"/", "_", "d", "a", "t", "a", "/", "c", ".", "y">>
FDataFile == <<"/", "b", "/", "_", "d", "a", "t", "a", ".", "y">>
FPartial == <<"/", "_", "p", "/", "h">>
FDot == <<"/", "b", "/", ".", "g">>
FStaticData == <<"/", "s", "/", "_", "d", "a", "t", "a", "/", "c">>
FWinData == <<"\\", "_", "d", "a", "t", "a", "\\", "c">>
FDataBare == <<"/", "_", "d", "a", "t", "a">>
FDatabase == <<"/", "_", "d", "a", "t", "a", "b", "/", "c">>
FDataTwoExt == <<"/", "_", "d", "a", "t", "a", ".", "t", ".", "g">>
FDataTilde == <<"/", "b", "/", "_", "d", "a", "t", "a", ".", "y", "~">>
FDataExtDir == <<"/", "_", "d", "a", "t", "a", ".", "y", "/", "x">>

\* arguments of copy() and ignore()
ArgS == <<"s">>
ArgSX == <<"/", "s", "x">>
ArgT == <<"t", "/">>
ArgData == <<"_", "d", "a", "t", "a">>
ArgB == <<"b">>

\* source and destination roots, as options
SrcDot == <<".">>
SrcSub == <<".", "/", "p">>
SrcSubSlash == <<"p", "/">>
DestInSub == <<".", "/", "p", "/", "o">>
DestBeside == <<".", "/", "p", "o">>
DestOutside == <<".", ".", "/", "o">>

\* changed files under the destination roots, as paths of the source tree
FOut == <<"/", "o", "/", "i">>
FSubOut == <<"/", "p", "/", "o", "/", "i">>

\* arguments of url()
UPageA == <<"~", "/", "a", ".", "m">>
UPageB == <<"~", "/", "b", "/", "c", ".", "m">>
UPageD == <<"~", "/", "d", ".", "m">>
UEscaped == <<"~", "/", "a", "%", "2", "E", "m">>
UMalformed == <<"~", "/", "a", "%", ".", "m">>
UStaticB == <<"~", "/", "b", "/", "x">>
UStaticS == <<"~", "/", "s", "/", "l", ".", "p">>
UMissing == <<"~", "/", "b", "l", "o", "g", "/", "p", "o", "s", "t", ".", "m", "d">>
URelative == <<".", "/", "r">>
URooted == <<"/", "x">>
UHttp == <<"h", "t", "t", "p", ":", "/", "/", "h">>

\* a source path as the platform writes it
Plat(p) == ReplaceAll(p, "/", SEP)

\* the sequences without repetition of at most n elements of S: a Set of
\* changed files in its iteration order
RECURSIVE Arrangements(_, _)
Arrangements(S, n) ==
  IF n = 0 THEN {<<>>}
  ELSE LET shorter == Arrangements(S, n - 1)
           longest == {p \in shorter \X S :
                         /\ Len(p[1]) = n - 1
                         /\ \A i \in 1..Len(p[1]) : p[1][i] # p[2]}
       IN shorter \cup {Append(p[1], p[2]) : p \in longest}

\* the number of listeners registered, all types together
NumListeners ==
  Cardinality(UNION {{<<t, i>> : i \in 1..Len(listeners[t])} : t \in DOMAIN listeners})

DefaultOptions(m) ==
  [cwd |-> Cwd, src |-> DefaultSrc, dest |-> DefaultDest, metrics |-> m,
   location |-> DefaultLocation, prettyUrls |-> TRUE]

\* ------------------------------------------------- the site, built and updated
\* The site is configured, then built, then updated.
PipelineListeners == {F1, Cmd}
PipelineOutcomes == {"true", "false", "throw"}
PipelineStatics == {<<ArgS, ArgS>>, <<ArgSX, ArgT>>}
PipelineFiles == {FStatic, FPartial}
PipelineListing == <<PageA>>

Init == InitWith({"/"}, {DefaultOptions(m) : m \in {"off", "print", "save"}})

Register ==
  /\ pc = "idle"
  /\ NumListeners < MaxListeners
  /\ \E t \in EventTypes, l \in PipelineListeners : AddEventListener(t, l)

Mapping ==
  /\ pc = "idle"
  /\ Len(staticFiles) < MaxStatic
  /\ \E m \in PipelineStatics : Copy(m[1], m[2])

\* the site is built once, from its configuration
FirstBuild == pc = "idle" /\ Build

\* the site is updated once, after its build has completed
FirstUpdate ==
  /\ pc = "done"
  /\ kind = "build"
  /\ \E fs \in Arrangements(PipelineFiles, MaxFiles) : Update(fs)

Next ==
  \/ Register
  \/ Mapping
  \/ FirstBuild
  \/ FirstUpdate
  \/ \E out \in PipelineOutcomes : ListenerSettle(out)
  \/ \E out \in Results : Clear(out)
  \/ \E out \in Results : CopyFile(out)
  \/ \E out \in Results : LoadDirectory(PipelineListing, out)
  \/ \E out \in Results : BuildPages(out)
  \/ SaveBegin
  \/ SaveStart
  \/ \E page \in inflight, out \in Results : SaveSettle(page, out)
  \/ SaveJoin
  \/ \E out \in Results : MetricsFlush(out)
  \/ \E out \in Results : UpdateFile(out)

Spec == Init /\ [][Next]_vars

\* ------------------------------------------------------------ the bus alone
\* Listeners are registered at any time, also while a dispatch awaits a
\* listener, and events are dispatched from outside the pipelines.
BusListeners == {F1, F2, Cmd}
BusEvents ==
  {Ev("beforeBuild"), Ev("beforeSave"), Ev("afterBuild"),
   EvFiles("beforeUpdate", <<PageA>>), EvFiles("afterUpdate", <<PageA>>)}

InitBus == InitWith({"/"}, {DefaultOptions("off")})

BusRegister ==
  /\ NumListeners < MaxListeners
  /\ \E t \in EventTypes, l \in BusListeners : AddEventListener(t, l)

BusDispatch == \E ev \in BusEvents : DispatchEvent(ev)

NextBus ==
  \/ BusRegister
  \/ BusDispatch
  \/ \E out \in Outcomes : ListenerSettle(out)

SpecBus == InitBus /\ [][NextBus]_vars

\* --------------------------------------------------- the loop of update() alone
\* Static mappings and ignored paths are registered, on either platform, and
\* one update runs over changed files of every class, up to its render.
UpdateStatics == {<<ArgS, ArgS>>, <<ArgSX, ArgT>>}
UpdateIgnores == {ArgS, ArgData}
UpdateFiles ==
  {FStatic, FStaticish, FSite, FDataDir, FDataFile, FPartial, FDot,
   FStaticData, FWinData, PageA}

InitUpdate == InitWith({"/", "\\"}, {DefaultOptions("off")})

UpdateMapping ==
  /\ pc = "idle"
  /\ Len(staticFiles) < MaxStatic
  /\ \E m \in UpdateStatics : Copy(m[1], m[2])

UpdateIgnore ==
  /\ pc = "idle"
  /\ Len(ignored) <= MaxIgnored
  /\ \E path \in UpdateIgnores : Ignore(path)

UpdateOnce ==
  /\ pc = "idle"
  /\ \E fs \in Arrangements(UpdateFiles, MaxFiles) : Update(fs)

NextUpdate ==
  \/ UpdateMapping
  \/ UpdateIgnore
  \/ UpdateOnce
  \/ \E out \in Results : UpdateFile(out)
  \/ \E out \in Results : BuildPages(out)

SpecUpdate == InitUpdate /\ [][NextUpdate]_vars

\* ------------------------------------------------------- the saves in flight
\* A site with several pages is built and then updated; listeners await
\* around the saves, and the saves settle in any order, each with any result.
EmitListeners == {F1}
EmitEvents == {"beforeSave", "afterBuild", "afterUpdate"}
EmitOutcomes == {"true", "false"}
EmitPages == <<PageA, PageB, PageC>>
EmitListings == {SubSeq(EmitPages, 1, n) : n \in 0..MaxPages}
EmitFiles == {PageD, FPartial}

InitEmit == InitWith({"/"}, {DefaultOptions("off")})

EmitRegister ==
  /\ pc = "idle"
  /\ NumListeners < MaxListeners
  /\ \E t \in EmitEvents, l \in EmitListeners : AddEventListener(t, l)

EmitBuild == pc = "idle" /\ Build

EmitUpdate ==
  /\ pc = "done"
  /\ kind = "build"
  /\ \E fs \in Arrangements(EmitFiles, MaxFiles) : Update(fs)

NextEmit ==
  \/ EmitRegister
  \/ EmitBuild
  \/ EmitUpdate
  \/ \E out \in EmitOutcomes : ListenerSettle(out)
  \/ Clear("ok")
  \/ LoadDirectory(<<>>, "throw")
  \/ \E listing \in EmitListings : LoadDirectory(listing, "ok")
  \/ \E out \in Results : BuildPages(out)
  \/ SaveBegin
  \/ SaveStart
  \/ \E page \in inflight, out \in Results : SaveSettle(page, out)
  \/ SaveJoin
  \/ MetricsFlush("ok")
  \/ \E out \in Results : UpdateFile(out)

SpecEmit == InitEmit /\ [][NextEmit]_vars

\* ------------------------------------------------------------ url() on a site
\* On either platform, with or without a base path and pretty urls, static
\* mappings are registered, the site is built and then updated by one new
\* page, and url() is called before, between and after.
SubPath == [origin |-> DefaultLocation.origin, pathname |-> <<"/", "b", "/">>]
UrlLocations == {DefaultLocation, SubPath}
UrlStatics == {<<ArgS, ArgS>>, <<ArgB, ArgT>>}
UrlPaths ==
  {UPageA, UPageB, UPageD, UEscaped, UMalformed, UStaticB, UStaticS, UMissing,
   URelative, URooted, UHttp}

InitUrl ==
  InitWith({"/", "\\"},
           {[DefaultOptions("off") EXCEPT !.location = l, !.prettyUrls = b] :
              l \in UrlLocations, b \in BOOLEAN})

UrlMapping ==
  /\ pc = "idle"
  /\ Len(staticFiles) < MaxStatic
  /\ \E m \in UrlStatics : Copy(m[1], m[2])

UrlBuild == pc = "idle" /\ Build

UrlUpdate ==
  /\ pc = "done"
  /\ kind = "build"
  /\ Update(<<Plat(PageD)>>)

\* url() reads the rendered pages, which only change at a render: calling it
\* between two runs sees every collection a call during a run can see
UrlResolve ==
  /\ Quiescent
  /\ \E path \in UrlPaths, absolute \in BOOLEAN : Url(path, absolute)

\* the saves settle in the order they were started, once the last one has
\* been started: url() does not look at what is emitted
UrlSaved ==
  /\ saveNext > Len(pages)
  /\ \E k \in 1..Len(pages) :
       /\ pages[k] \in inflight
       /\ \A j \in 1..(k - 1) : pages[j] \notin inflight
       /\ SaveSettle(pages[k], "ok")

NextUrl ==
  \/ UrlMapping
  \/ UrlBuild
  \/ UrlUpdate
  \/ UrlResolve
  \/ Clear("ok")
  \/ CopyFile("ok")
  \/ \E n \in 0..MaxPages : LoadDirectory([i \in 1..n |-> Plat(EmitPages[i])], "ok")
  \/ BuildPages("ok")
  \/ SaveBegin
  \/ SaveStart
  \/ UrlSaved
  \/ SaveJoin
  \/ MetricsFlush("ok")
  \/ UpdateFile("ok")

SpecUrl == InitUrl /\ [][NextUrl]_vars

\* ------------------------------------------------------------- the registry
\* Listeners are registered, the same ones again and again, at any time, and
\* events are dispatched; the history keeps the registrations across the
\* dispatches.
RegistryListeners == {F1, Cmd}
RegistryTypes == {"beforeBuild", "afterBuild"}
RegistryOutcomes == {"true", "false", "undefined"}

\* the registrations in the history
Registrations == SelectSeq(log, LAMBDA e : e.op = "addEventListener")

InitRegistry == InitWith({"/"}, {DefaultOptions("off")})

RegistryRegister ==
  /\ Len(Registrations) < MaxRegistrations
  /\ \E t \in RegistryTypes, l \in RegistryListeners : AddEventListenerNoted(t, l)

RegistryDispatch == \E t \in RegistryTypes : DispatchEventAfter(Ev(t), Registrations)

NextRegistry ==
  \/ RegistryRegister
  \/ RegistryDispatch
  \/ \E out \in RegistryOutcomes : ListenerSettle(out)

SpecRegistry == InitRegistry /\ [][NextRegistry]_vars

\* ---------------------------------------------------------- the constructor
\* Sites are constructed, on either platform, with every combination of the
\* source and destination roots, and then updated by files of which some lie
\* under the destination root.
ConstructSrc == {DefaultSrc, SrcDot, SrcSub, SrcSubSlash}
ConstructDest == {DefaultDest, DestInSub, DestBeside, DestOutside}
ConstructCwd == {Cwd, Root}
ConstructFiles == {FSite, FOut, FSubOut, PageA}

InitConstruct ==
  InitWith({"/", "\\"},
           {[DefaultOptions("off") EXCEPT !.cwd = c, !.src = r, !.dest = d] :
              c \in ConstructCwd, r \in ConstructSrc, d \in ConstructDest})

ConstructUpdate ==
  /\ pc = "idle"
  /\ \E fs \in Arrangements({Plat(f) : f \in ConstructFiles}, MaxFiles) : Update(fs)

NextConstruct ==
  \/ ConstructUpdate
  \/ \E out \in Results : UpdateFile(out)
  \/ \E out \in Results : BuildPages(out)

SpecConstruct == InitConstruct /\ [][NextConstruct]_vars

\* --------------------------------------------------- update() during a build
\* A site without listeners is built, and update() is called while the
\* saves of the build are in flight.
OverlapFiles == {PageD, FPartial}

InitOverlap == InitWith({"/"}, {DefaultOptions("off")})

OverlapBuild == pc = "idle" /\ Build

\* one update is called while the build awaits its saves
OverlapUpdate ==
  /\ kind = "build"
  /\ \E fs \in Arrangements(OverlapFiles, MaxFiles) : UpdateDuringSaves(fs)

NextOverlap ==
  \/ OverlapBuild
  \/ OverlapUpdate
  \/ Clear("ok")
  \/ \E listing \in EmitListings : LoadDirectory(listing, "ok")
  \/ BuildPages("ok")
  \/ SaveBegin
  \/ SaveStart
  \/ \E page \in inflight, out \in Results : SaveSettle(page, out)
  \/ SaveJoin
  \/ MetricsFlush("ok")
  \/ UpdateFile("ok")
  \/ \E page \in waiting.inflight, out \in Results : WaitingSettle(page, out)
  \/ WaitingResume

SpecOverlap == InitOverlap /\ [][NextOverlap]_vars

\* ------------------------------------------------------- the _data pattern
\* One update runs, on either platform, over changed files whose names
\* begin with _data in every way, with /s static and /_data ignored or not.
DataFiles ==
  {FDataDir, FDataFile, FWinData, FDataBare, FDatabase, FDataTwoExt, FDataTilde,
   FDataExtDir, FStaticData, PageA}

InitData == InitWith({"/", "\\"}, {DefaultOptions("off")})

DataMapping ==
  /\ pc = "idle"
  /\ staticFiles = <<>>
  /\ Copy(ArgS, ArgS)

DataIgnore ==
  /\ pc = "idle"
  /\ Len(ignored) <= MaxIgnored
  /\ Ignore(ArgData)

DataUpdate ==
  /\ pc = "idle"
  /\ \E fs \in Arrangements(DataFiles, MaxFiles) : Update(fs)

NextData ==
  \/ DataMapping
  \/ DataIgnore
  \/ DataUpdate
  \/ \E out \in Results : UpdateFile(out)
  \/ \E out \in Results : BuildPages(out)

SpecData == InitData /\ [][NextData]_vars

\* ----------------------------------------------------------------- histories
Idx == 1..Len(log)

IsPrefix(a, b) == Len(a) <= Len(b) /\ SubSeq(b, 1, Len(a)) = a

\* the listeners called since the entry point was called, for events of type
Called(type) ==
  LET Keep(e) == e.op = "listener" /\ e.type = type
      calls == SelectSeq(log, Keep)
  IN [i \in 1..Len(calls) |-> calls[i].lst]

\* a settled listener vetoed: a callable returned false, a script reported false
Vetoed(e) == e.op = "settled" /\ e.out = "false"

\* ------------------------------------------------------------------------ C1
\* C1: the listeners of a dispatch are called in registration order, one at
\* a time (each call directly follows the dispatch call or the successful
\* settling of the listener before it), and none is called after a veto.
C1_OrderedUntilVeto ==
  kind = "dispatch" =>
    /\ \A t \in EventTypes : IsPrefix(Called(t), ListenersOf(t))
    /\ \A i \in Idx : log[i].op = "listener" =>
         /\ i > 1
         /\ \/ log[i - 1].op = "dispatchEvent"
            \/ /\ log[i - 1].op = "settled"
               /\ log[i - 1].out \in {"true", "undefined"}
    /\ \A i \in Idx : Vetoed(log[i]) =>
         \A j \in Idx : j > i => log[j].op # "listener"

\* a first listener has vetoed while a second one is registered after it
C1_Witness ==
  /\ kind = "dispatch"
  /\ pc = "done"
  /\ \E i \in Idx :
       /\ Vetoed(log[i])
       /\ Len(ListenersOf(log[i].type)) >= 2
       /\ log[i].lst = ListenersOf(log[i].type)[1]

\* ------------------------------------------------------------------------ C6
\* C6: a dispatch returns false exactly when a listener it called signalled
\* failure (a callable returned false, a named script's run reported
\* false); undefined from a callable counts as success; a dispatch that
\* ran to its end without failure, or found no listener, returns true.
C6_ReturnsFalseIffVeto ==
  kind = "dispatch" =>
    /\ \A r \in Idx : log[r].op = "return" =>
         (log[r].out = "false" <=> \E j \in 1..(r - 1) : Vetoed(log[j]))
    /\ pc = "done" =>
         /\ log[Len(log)].op = "return"
         /\ log[Len(log)].out \in {"true", "false"}
    /\ (pc = "done" /\ ListenersOf(log[1].type) = <<>>) =>
         log = <<log[1], EvReturn([type |-> log[1].type, files |-> log[1].files], TRUE)>>

\* a callable returned undefined, a script reported success, and the dispatch
\* returned true
C6_Witness ==
  /\ kind = "dispatch"
  /\ pc = "done"
  /\ log[Len(log)].op = "return"
  /\ log[Len(log)].out = "true"
  /\ \E i, j \in Idx :
       /\ log[i].op = "settled" /\ log[i].lst.kind = "fn" /\ log[i].out = "undefined"
       /\ log[j].op = "settled" /\ log[j].lst.kind = "name" /\ log[j].out = "true"

\* -------------------------------------------------------------------- phases
\* what an entry says of the call made, without its outcome
Mark(e) == [op |-> e.op, type |-> e.type, path |-> e.path, to |-> e.to, files |-> e.files]

PhaseMark(op, type, path, to, fs) ==
  [op |-> op, type |-> type, path |-> path, to |-> to, files |-> fs]

EventMark(ev) == PhaseMark("dispatchEvent", ev.type, NoPath, NoPath, ev.files)
CallMark(op) == PhaseMark(op, "-", NoPath, NoPath, NoFiles)

\* the calls that open the phases, in their order in the history
Marks(ops) ==
  LET Keep(e) == e.op \in ops
      kept == SelectSeq(log, Keep)
  IN [i \in 1..Len(kept) |-> Mark(kept[i])]

\* every dispatch has returned before the next phase opens, and every save
\* has settled before the event after the saves is dispatched
PhasesComplete(ops) ==
  /\ \A j \in {k \in Idx : log[k].op \in ops} :
       \A i \in {k \in 1..(j - 1) : log[k].op = "dispatchEvent"} :
         \E r \in (i + 1)..(j - 1) : log[r].op = "return" /\ log[r].type = log[i].type
  /\ \A j \in {k \in Idx : log[k].op = "dispatchEvent"} :
       \A i \in {k \in 1..(j - 1) : log[k].op = "savePage"} :
         \E r \in (i + 1)..(j - 1) :
           log[r].op = "saved" /\ log[r].path = log[i].path /\ log[r].out = "ok"

\* the saves lie between the return of beforeSave and the dispatch after them
SavesInPlace(after) ==
  \A i \in {k \in Idx : log[k].op \in {"savePage", "saved"}} :
    /\ \E r \in 1..(i - 1) : log[r].op = "return" /\ log[r].type = "beforeSave"
    /\ \A j \in 1..(i - 1) : ~(log[j].op = "dispatchEvent" /\ log[j].type = after)

\* every rendered page was saved once, and no other
SavedAll ==
  /\ \A k \in 1..Len(pages) :
       Cardinality({i \in Idx : log[i].op = "savePage" /\ log[i].path = pages[k]}) = 1
  /\ \A i \in Idx : log[i].op = "savePage" =>
       \E k \in 1..Len(pages) : pages[k] = log[i].path

\* ------------------------------------------------------------------------ C2
BuildOps ==
  {"dispatchEvent", "clear", "copyFile", "loadDirectory", "buildPages",
   "metrics.save", "metrics.print", "file", "loadFile"}

\* the phases of a build, by the calls that open them
BuildPlan ==
  <<EventMark(Ev("beforeBuild")), CallMark("clear")>>
  \o [i \in 1..Len(staticFiles) |->
        PhaseMark("copyFile", "-", staticFiles[i][1], staticFiles[i][2], NoFiles)]
  \o <<CallMark("loadDirectory"),
       PhaseMark("buildPages", "-", NoPath, NoPath, sourcePages),
       EventMark(Ev("beforeSave")),
       EventMark(Ev("afterBuild"))>>
  \o (IF options.metrics = "save"
      THEN <<PhaseMark("metrics.save", "-", options.cwd, NoPath, NoFiles)>>
      ELSE IF options.metrics = "print" THEN <<CallMark("metrics.print")>>
      ELSE <<>>)

\* C2: at every moment of a build the phases opened so far are the first
\* phases of BeforeBuild, Clear, CopyStatic (each mapping in registration
\* order), LoadAll, RenderAll, BeforeSave, SaveAll, AfterBuild, MetricsFlush,
\* each opened once and only after the one before it has completed; a build
\* that completes has run them all.
C2_BuildPhasesInOrder ==
  kind = "build" =>
    /\ IsPrefix(Marks(BuildOps), BuildPlan)
    /\ PhasesComplete(BuildOps)
    /\ SavesInPlace("afterBuild")
    /\ pc = "done" => (Marks(BuildOps) = BuildPlan /\ SavedAll)

\* a build with two static mappings and a page has completed
C2_Witness ==
  /\ kind = "build"
  /\ pc = "done"
  /\ Len(staticFiles) = 2
  /\ options.metrics = "save"
  /\ pages # <<>>

\* ------------------------------------------------------------------------ C3
UpdateOps ==
  {"dispatchEvent", "file", "buildPages", "clear", "loadDirectory",
   "metrics.save", "metrics.print"}

\* the phases of an update, by the calls that open them
UpdatePlan ==
  <<EventMark(EvFiles("beforeUpdate", files))>>
  \o [i \in 1..Len(files) |-> PhaseMark("file", "-", files[i], NoPath, NoFiles)]
  \o <<PhaseMark("buildPages", "-", NoPath, NoPath, sourcePages),
       EventMark(Ev("beforeSave")),
       EventMark(EvFiles("afterUpdate", files))>>

\* C3: at every moment of an update the phases opened so far are the first
\* phases of BeforeUpdate, the changed files one by one, RenderAll,
\* BeforeSave, SaveAll, AfterUpdate, each after the one before it has
\* completed; the destination is never cleared, a copy is only ever the
\* copy of one changed file, and beforeUpdate and afterUpdate carry the
\* changed-file set given to update().
C3_UpdatePhasesInOrder ==
  kind = "update" =>
    /\ IsPrefix(Marks(UpdateOps), UpdatePlan)
    /\ PhasesComplete(UpdateOps)
    /\ SavesInPlace("afterUpdate")
    /\ pc = "done" => (Marks(UpdateOps) = UpdatePlan /\ SavedAll)
    /\ \A i \in Idx :
         /\ log[i].op # "clear"
         /\ log[i].op = "copyFile" =>
              /\ \E k \in 1..Len(files) : files[k] = log[i].path
              /\ i > 1 /\ log[i - 1].op = "file" /\ log[i - 1].path = log[i].path
         /\ log[i].type \in {"beforeUpdate", "afterUpdate"} => log[i].files = files

\* an update of two files, one of them static, has completed on a site with
\* a static mapping
C3_Witness ==
  /\ kind = "update"
  /\ pc = "done"
  /\ Len(files) = 2
  /\ staticFiles # <<>>
  /\ \E i \in Idx : log[i].op = "copyFile"
  /\ \E i \in Idx : log[i].op = "listener" /\ log[i].type = "afterUpdate"

\* ------------------------------------------------------------------------ C5
\* C5: a listener or a collaborator call that throws ends the run as failed:
\* nothing is called after it (after a save that throws, only the other
\* saves of the same SaveAll are still started or settled), the failing call
\* is not made again, and a run that completes has seen no throw.
C5_ThrowAborts ==
  \A i \in Idx : log[i].out = "throw" =>
    /\ pc # "done"
    /\ log[i].op # "saved" => (i = Len(log) /\ pc = "failed")
    /\ log[i].op = "saved" =>
         /\ pc \in {"save", "failed"}
         /\ \A j \in Idx : j > i =>
              /\ log[j].op \in {"savePage", "saved"}
              /\ log[j].path # log[i].path

\* the copy of the first of two static mappings has thrown
C5_Witness ==
  /\ kind = "build"
  /\ pc = "failed"
  /\ Len(staticFiles) = 2
  /\ log[Len(log)].op = "copyFile"
  /\ log[Len(log)].out = "throw"
  /\ log[Len(log)].path = staticFiles[1][1]

\* ------------------------------------------------------------------------ C7
VetoOf(type) == \E i \in Idx : log[i].op = "return" /\ log[i].type = type /\ log[i].out = "false"
Did(op) == \E i \in Idx : log[i].op = op
Dispatched(type) == \E i \in Idx : log[i].op = "dispatchEvent" /\ log[i].type = type

\* C7: a veto does not abort. Right after the dispatch of beforeBuild,
\* beforeSave or beforeUpdate has returned false the run stands where it
\* stands after a dispatch that returned true, a run fails only by a throw,
\* and a run that completes after a veto has run every later phase.
C7_VetoDoesNotAbort ==
  /\ \A i \in Idx : (i = Len(log) /\ log[i].op = "return" /\ log[i].out = "false") =>
       /\ log[i].type = "beforeBuild" => pc = "clear"
       /\ log[i].type = "beforeSave" => pc \in {"saveBegin", "save"}
       /\ log[i].type = "beforeUpdate" => pc \in {"files", "render"}
  /\ pc = "failed" => \E i \in Idx : log[i].out = "throw"
  /\ (pc = "done" /\ kind = "build" /\ VetoOf("beforeBuild")) =>
       /\ Did("clear") /\ Did("loadDirectory") /\ Did("buildPages")
       /\ Dispatched("beforeSave") /\ Did("savePage") /\ Dispatched("afterBuild")
  /\ (pc = "done" /\ kind = "build" /\ VetoOf("beforeSave")) =>
       Did("savePage") /\ Dispatched("afterBuild")
  /\ (pc = "done" /\ kind = "update" /\ VetoOf("beforeUpdate")) =>
       /\ Len(SelectSeq(log, LAMBDA e : e.op = "file")) = Len(files)
       /\ Did("buildPages") /\ Dispatched("beforeSave") /\ Dispatched("afterUpdate")
  /\ (pc = "done" /\ kind = "update" /\ VetoOf("beforeSave")) =>
       Dispatched("afterUpdate") /\ (pages # <<>> => Did("savePage"))

\* a build has completed although a beforeBuild listener vetoed
C7_Witness ==
  /\ pc = "done"
  /\ kind = "build"
  /\ VetoOf("beforeBuild")
  /\ Did("clear")
  /\ Did("savePage")

\* ------------------------------------------------------------------------ C8
\* C8: whatever the changed files, an update hands the whole page collection
\* to the renderer after the last changed file, and one that completes has
\* rendered once and saved every page of the collection.
C8_UpdateRendersAndSavesAll ==
  kind = "update" =>
    /\ \A i \in Idx : log[i].op = "buildPages" =>
         /\ log[i].files = sourcePages
         /\ Cardinality({j \in 1..(i - 1) : log[j].op = "file"}) = Len(files)
    /\ pc = "done" =>
         /\ Cardinality({i \in Idx : log[i].op = "buildPages"}) = 1
         /\ \A k \in 1..Len(sourcePages) :
              \E i, j \in Idx :
                /\ i < j
                /\ log[i].op = "buildPages"
                /\ log[j].op = "savePage"
                /\ log[j].path = sourcePages[k]

\* an update whose only changed file was skipped has re-rendered and saved
\* the page loaded by the build before it
C8_Witness ==
  /\ kind = "update"
  /\ pc = "done"
  /\ files = <<FPartial>>
  /\ sourcePages = <<PageA>>
  /\ \E i \in Idx : log[i].op = "savePage" /\ log[i].path = PageA
  /\ ~Did("loadFile")
  /\ ~Did("copyFile")

\* ------------------------------------------------------------------------ C4
Classes == {"static", "ignored", "data", "hidden", "default"}

\* the predicates of the classifier, each on its own
StaticP(f) == \E k \in 1..Len(staticFiles) : StartsWith(f, staticFiles[k][1])
IgnoredP(f) == isIgnored(f)
DataP(f) == DataRegex(normalizePath(f))
HiddenP(f) ==
  \/ Includes(normalizePath(f), <<"/", "_">>)
  \/ Includes(normalizePath(f), <<"/", ".">>)

\* the changed files classified so far, in the order they were classified
Classified ==
  LET Keep(e) == e.op = "file"
      kept == SelectSeq(log, Keep)
  IN [i \in 1..Len(kept) |-> kept[i].path]

\* C4: every changed file reached by the loop gets exactly one class, and
\* where several predicates hold the class is the first of Static, Ignored,
\* DataReload, HiddenSkip, GenericReload whose predicate holds.
C4_ClassifyTotalExclusive ==
  kind = "update" =>
    /\ IsPrefix(Classified, files)
    /\ \A i \in Idx : log[i].op = "file" =>
         LET f == log[i].path
             c == log[i].out
         IN /\ c \in Classes
            /\ StaticP(f) => c = "static"
            /\ (~StaticP(f) /\ IgnoredP(f)) => c = "ignored"
            /\ (~StaticP(f) /\ ~IgnoredP(f) /\ DataP(f)) => c = "data"
            /\ (~StaticP(f) /\ ~IgnoredP(f) /\ ~DataP(f) /\ HiddenP(f)) => c = "hidden"
            /\ (~StaticP(f) /\ ~IgnoredP(f) /\ ~DataP(f) /\ ~HiddenP(f)) => c = "default"

\* a file both static and ignored was classified static, and a file both
\* ignored and hidden was classified ignored
C4_Witness ==
  /\ kind = "update"
  /\ \E i, j \in Idx :
       /\ log[i].op = "file" /\ log[i].out = "static"
       /\ StaticP(log[i].path) /\ IgnoredP(log[i].path)
       /\ log[j].op = "file" /\ log[j].out = "ignored"
       /\ IgnoredP(log[j].path) /\ HiddenP(log[j].path)

\* ------------------------------------------------------------------------ C9
\* the first static mapping, in registration order, whose prefix starts f
FirstMapping(f) ==
  CHOOSE k \in 1..Len(staticFiles) :
    /\ StartsWith(f, staticFiles[k][1])
    /\ \A j \in 1..(k - 1) : ~StartsWith(f, staticFiles[j][1])

\* a changed file that matches a static mapping is classified static, is
\* copied, alone, to the mapping's destination joined with the rest of its
\* path, and is not handed to the loader
StaticFilesCopied ==
  \A i \in Idx : (log[i].op = "file" /\ StaticP(log[i].path)) =>
    LET f == log[i].path
        m == staticFiles[FirstMapping(f)]
    IN /\ log[i].out = "static"
       /\ i < Len(log)
       /\ log[i + 1].op = "copyFile"
       /\ log[i + 1].path = f
       /\ log[i + 1].to = join(m[2], SubSeq(f, Len(m[1]) + 1, Len(f)))
       /\ \A j \in Idx : ~(log[j].op = "loadFile" /\ log[j].path = f)
       /\ \A k \in 1..Len(sourcePages) : sourcePages[k] # f

\* every changed file of the update was static
AllStatic ==
  /\ files # <<>>
  /\ Classified = files
  /\ \A i \in Idx : log[i].op = "file" => log[i].out = "static"

\* C9 as stated: a static changed file is copied, not reloaded, and the
\* update triggers no render.
C9_NoRenderForStatic ==
  kind = "update" => (StaticFilesCopied /\ (AllStatic => ~Did("buildPages")))

\* C9 as amended: a static changed file is copied, not reloaded; the render
\* of the whole collection still follows the loop, also when every changed
\* file was static: once they are all copied the render is the next call,
\* or has been made.
C9_StaticCopiedThenRendered ==
  kind = "update" =>
    /\ StaticFilesCopied
    /\ (AllStatic /\ \A i \in Idx : log[i].out # "throw") =>
         (pc = "render" \/ Did("buildPages"))

\* a file matched by two mappings was copied by the first one registered,
\* whose prefix does not end at a segment boundary of the file
C9_Witness ==
  /\ kind = "update"
  /\ Len(staticFiles) = 2
  /\ AllStatic
  /\ Did("buildPages")
  /\ \E i \in Idx :
       /\ log[i].op = "copyFile"
       /\ log[i].out = "ok"
       /\ log[i].path = FStaticish
       /\ StartsWith(FStaticish, staticFiles[1][1])
       /\ StartsWith(FStaticish, staticFiles[2][1])
       /\ staticFiles[1][1] = <<"/", "s">>

\* ----------------------------------------------------------------------- C10
AfterFile == {"file", "buildPages"}

\* C10: the changed files are handled one at a time in the order of the set:
\* a static file by one copyFile of that file and no loader call, an ignored
\* or hidden file by no call at all, a data or default file by one loadFile
\* of that file and no copy; and no copy or load is made but for the file
\* classified just before it.
C10_ActionByClass ==
  kind = "update" =>
    /\ IsPrefix(Classified, files)
    /\ \A i \in Idx : log[i].op = "file" =>
         LET f == log[i].path
             c == log[i].out
             one(op) == /\ i < Len(log)
                        /\ log[i + 1].op = op
                        /\ log[i + 1].path = f
                        /\ (i + 2 <= Len(log) => log[i + 2].op \in AfterFile)
         IN /\ c = "static" => one("copyFile")
            /\ c \in {"data", "default"} => one("loadFile")
            /\ c \in {"ignored", "hidden"} =>
                 (i < Len(log) => log[i + 1].op \in AfterFile)
    /\ \A i \in Idx : log[i].op \in {"copyFile", "loadFile"} =>
         /\ i > 1
         /\ log[i - 1].op = "file"
         /\ log[i - 1].path = log[i].path
         /\ log[i].op = "copyFile" <=> log[i - 1].out = "static"

\* a hidden file was skipped and the data file after it reloaded, before
\* the render
C10_Witness ==
  /\ kind = "update"
  /\ files = <<FPartial, FDataDir>>
  /\ Did("buildPages")
  /\ \E i \in Idx :
       /\ log[i].op = "file" /\ log[i].out = "hidden"
       /\ log[i + 1].op = "file" /\ log[i + 1].out = "data"
       /\ log[i + 2].op = "loadFile" /\ log[i + 2].out = "ok"

\* ----------------------------------------------------------------------- C11
\* the requests to save page p made so far
Requests(p) == {i \in Idx : log[i].op = "savePage" /\ log[i].path = p}

AfterSaves(e) == e.op = "dispatchEvent" /\ e.type \in {"afterBuild", "afterUpdate"}

\* C11: in a build or an update, whatever the order in which the saves in
\* flight settle, a save is requested only for a page the render of this
\* run was given, only after the dispatch of beforeSave has returned, and
\* never twice; once concurrent() has gone through the collection every
\* page has been requested once; and afterBuild or afterUpdate is
\* dispatched only when every page's save has been requested and has
\* completed, and no save is requested or settles after it.
C11_EachPageSavedOnce ==
  kind \in {"build", "update"} =>
    /\ \A i \in {k \in Idx : log[k].op = "savePage"} :
         /\ \E b \in 1..(i - 1) :
              /\ log[b].op = "buildPages"
              /\ log[b].out = "ok"
              /\ \E k \in 1..Len(log[b].files) : log[b].files[k] = log[i].path
         /\ \E r \in 1..(i - 1) : log[r].op = "return" /\ log[r].type = "beforeSave"
         /\ Cardinality(Requests(log[i].path)) = 1
    /\ (pc = "save" /\ saveNext > Len(pages)) =>
         \A k \in 1..Len(pages) : Cardinality(Requests(pages[k])) = 1
    /\ \A a \in {k \in Idx : AfterSaves(log[k])} :
         /\ \A b \in {k \in 1..(a - 1) : log[k].op = "buildPages"} :
              \A k \in 1..Len(log[b].files) :
                \E i, j \in 1..(a - 1) :
                  /\ i < j
                  /\ log[i].op = "savePage" /\ log[i].path = log[b].files[k]
                  /\ log[j].op = "saved" /\ log[j].path = log[b].files[k]
                  /\ log[j].out = "ok"
         /\ \A j \in (a + 1)..Len(log) : log[j].op \notin {"savePage", "saved"}
         /\ inflight = {}

\* an update has completed whose saves of three pages, one of them loaded by
\* the update, were all in flight together and settled in another order than
\* they were started in, after a beforeSave listener was awaited
C11_Witness ==
  /\ kind = "update"
  /\ pc = "done"
  /\ Len(pages) = 3
  /\ \E l \in Idx : log[l].op = "settled" /\ log[l].type = "beforeSave"
  /\ \E i, j, k \in Idx :
       /\ i < j /\ j < k
       /\ log[i].op = "savePage" /\ log[j].op = "savePage" /\ log[k].op = "savePage"
       /\ \A m \in Idx : log[m].op = "saved" => m > k
       /\ \E m, n \in Idx :
            /\ m < n
            /\ log[m].op = "saved" /\ log[m].path = log[j].path
            /\ log[n].op = "saved" /\ log[n].path = log[i].path

\* ----------------------------------------------------------------------- C12
Marker == <<"~", "/">>

\* the non-empty segments of a url
UrlSegments(u) == SelectSeq(PosixSegments(u, <<>>), LAMBDA g : g # <<>>)

\* a url as url() serves it: behind the base path unless it starts with it,
\* and behind the origin when the absolute form was asked
Served(e, u) ==
  LET base == options.location.pathname
      path == IF StartsWith(u, base)
              THEN u
              ELSE PosixJoin(base, u)
  IN IF e.lst.id = "yes" THEN options.location.origin \o path ELSE path

\* a call of url() has just been made: it is the last entry of the history,
\* and the site is as the call found it
JustResolved == Len(log') = Len(log) + 1 /\ log'[Len(log')].op = "url"

\* the call of url() at the end of the history, when it is for a source
\* path that percent-decodes
SourceCalls ==
  {i \in {Len(log)} \ {0} :
               /\ log[i].op = "url"
               /\ StartsWith(log[i].path, Marker)
               /\ ~Malformed(Slice(log[i].path, 1))}

\* the source path a call of url() asks for, with "/" for separators
Asked(e) == decodeURI(Slice(e.path, 1))

IsPage(p) == \E k \in 1..Len(pages) : normalizePath(pages[k]) = p
PageOf(p) == pages[CHOOSE k \in 1..Len(pages) : normalizePath(pages[k]) = p]

Maps(p) == {k \in 1..Len(staticFiles) : StartsWith(p, normalizePath(staticFiles[k][1]))}

\* the call of url() just made, and whether it is for a source path that
\* percent-decodes
LastCall == log'[Len(log')]
IsSourceCall(e) == StartsWith(e.path, Marker) /\ ~Malformed(Slice(e.path, 1))

\* what the call e of url() gives for the pages and mappings it found
C12_Resolution(e) ==
  LET p == Asked(e)
  IN IF IsPage(p)
     THEN /\ e.out = "ok"
          /\ e.to = Served(e, urls[PageOf(p)])
     ELSE IF Maps(p) # {}
     THEN LET m == staticFiles[CHOOSE k \in Maps(p) : \A j \in Maps(p) : k <= j]
              to == normalizePath(m[2])
              rest == Slice(p, Len(m[1]))
              whole == UrlSegments(to) \o UrlSegments(rest)
          IN /\ e.out = "ok"
             /\ \E u \in {to \o rest, to \o Tail(rest)} :
                  UrlSegments(u) = whole /\ e.to = Served(e, u)
     ELSE /\ e.out = "throw"
          /\ e.type = SourceNotFound

\* C12: for a path with the marker "~/" that percent-decodes, url() looks
\* for a loaded page first, whose url it serves even when a static mapping
\* matches too; then for the first static mapping whose source prefix starts
\* the path, and serves the mapping's destination followed by the rest of
\* the path; and with neither it throws "Source file not found" and returns
\* nothing.
C12_PageThenStaticThenThrow ==
  [][(JustResolved /\ IsSourceCall(LastCall)) => C12_Resolution(LastCall)]_vars

\* the source path of a loaded page that a static mapping matches too was
\* resolved to the page's url, and not into the mapping's destination
C12_Witness ==
  \E i \in SourceCalls :
    /\ log[i].path = UPageB
    /\ IsPage(Asked(log[i]))
    /\ Maps(Asked(log[i])) # {}
    /\ log[i].out = "ok"
    /\ log[i].lst.id = "no"
    /\ log[i].to = urls[PageOf(Asked(log[i]))]

\* ----------------------------------------------------------------------- C13
\* the call at the end of the history, when it is url("~" + source path)
\* for a rendered page, in the relative form
PageCalls ==
  {i \in {Len(log)} \ {0} :
               /\ log[i].op = "url"
               /\ log[i].lst.id = "no"
               /\ \E k \in 1..Len(pages) : log[i].path = <<"~">> \o normalizePath(pages[k])}

\* C13 as stated: for every rendered page and every base URL, url() of the
\* page's source path returns the url in the page's data.
C13_SameUrl ==
  \A i \in PageCalls :
    /\ log[i].out = "ok"
    /\ log[i].to = urls[PageOf(Slice(log[i].path, 1))]

C13_RoundTrip == [][JustResolved => C13_SameUrl']_vars

\* C13 as amended: url() of a rendered page's source path returns the url
\* in the page's data when that url starts with the base path of the site's
\* location, as every url does under the default base path "/", and
\* otherwise the base path joined in front of it.
C13_UrlBehindBase ==
  \A i \in PageCalls :
    LET u == urls[PageOf(Slice(log[i].path, 1))]
        base == options.location.pathname
    IN /\ log[i].out = "ok"
       /\ StartsWith(u, base) => log[i].to = u
       /\ ~StartsWith(u, base) =>
            /\ log[i].to = SubSeq(base, 1, Len(base) - 1) \o u
            /\ log[i].to # u
       /\ base = <<"/">> => log[i].to = u

C13_RoundTripBehindBase == [][JustResolved => C13_UrlBehindBase']_vars

\* under the base path "/b/" the page loaded by the update resolves to its
\* url behind the base path
C13_Witness ==
  /\ kind = "update"
  /\ pc = "done"
  /\ options.location.pathname = <<"/", "b", "/">>
  /\ \E i \in PageCalls :
       /\ log[i].path = UPageD
       /\ log[i].out = "ok"
       /\ log[i].to = <<"/", "b">> \o urls[Plat(PageD)]

\* ----------------------------------------------------------------------- C14
\* the call at the end of the history, when it threw the exception
NotFound ==
  {i \in {Len(log)} \ {0} :
     log[i].op = "url" /\ log[i].out = "throw" /\ log[i].type = SourceNotFound}

\* C14 as stated: the exception carries the path with the marker "~/"
\* stripped, "blog/post.md" for "~/blog/post.md".
C14_StrippedPath ==
  \A i \in NotFound :
    /\ log[i].to = decodeURI(Slice(log[i].path, 2))
    /\ log[i].path = UMissing =>
         log[i].to = <<"b", "l", "o", "g", "/", "p", "o", "s", "t", ".", "m", "d">>

C14_CarriesStrippedPath == [][JustResolved => C14_StrippedPath']_vars

\* C14 as amended: the exception is thrown for a marker path that matches
\* no loaded page and no static mapping, and carries the path with only the
\* "~" stripped, percent-decoded and with the platform's separators:
\* "/blog/post.md" for "~/blog/post.md", "\blog\post.md" on Windows.
C14_SourcePath ==
  \A i \in NotFound :
    /\ StartsWith(log[i].path, Marker)
    /\ ~IsPage(Asked(log[i]))
    /\ Maps(Asked(log[i])) = {}
    /\ log[i].to[1] = SEP
    /\ normalizePath(log[i].to) = Asked(log[i])
    /\ \A k \in 1..Len(log[i].to) : log[i].to[k] = "/" => SEP = "/"
    /\ log[i].path = UMissing =>
         normalizePath(log[i].to) =
           <<"/", "b", "l", "o", "g", "/", "p", "o", "s", "t", ".", "m", "d">>

C14_CarriesSourcePath == [][JustResolved => C14_SourcePath']_vars

\* "~/blog/post.md" was asked of a built site with pages and static mappings,
\* none of which matches it
C14_Witness ==
  /\ pc = "done"
  /\ pages # <<>>
  /\ staticFiles # <<>>
  /\ \E i \in NotFound : log[i].path = UMissing

\* ----------------------------------------------------------------------- C15
RECURSIVE Distinct(_)
\* a sequence without its repetitions, each element where it first stands
Distinct(q) ==
  IF q = <<>> THEN <<>>
  ELSE LET front == Distinct(SubSeq(q, 1, Len(q) - 1))
           last == q[Len(q)]
       IN IF \E i \in 1..Len(front) : front[i] = last THEN front ELSE Append(front, last)

\* the listeners registered for a type, in the order of the registrations
RegisteredFor(type) ==
  LET regs == SelectSeq(Registrations, LAMBDA e : e.type = type)
  IN [i \in 1..Len(regs) |-> regs[i].lst]

\* the listeners called by the dispatch in progress or just completed
CalledNow(type) ==
  LET starts == {i \in Idx : log[i].op = "dispatchEvent"}
      from == IF starts = {} THEN Len(log) + 1
              ELSE CHOOSE i \in starts : \A j \in starts : j <= i
      calls == SelectSeq(SubSeq(log, from, Len(log)),
                         LAMBDA e : e.op = "listener" /\ e.type = type)
  IN [i \in 1..Len(calls) |-> calls[i].lst]

\* C15: however often a listener is registered for a type, the registry
\* holds it once, where its first registration put it: the listeners of a
\* type are the listeners registered for it without the repetitions; and a
\* dispatch calls each of them at most once, in that order, and exactly once
\* when it returns true.
C15_RegisterIdempotent ==
  /\ \A t \in EventTypes : ListenersOf(t) = Distinct(RegisteredFor(t))
  /\ \A t \in EventTypes :
       /\ IsPrefix(CalledNow(t), Distinct(RegisteredFor(t)))
       /\ (kind = "dispatch" /\ pc = "done" /\ log[Len(log)].type = t
             /\ log[Len(log)].out = "true") =>
            CalledNow(t) = Distinct(RegisteredFor(t))

\* a listener registered, then another, then the first one again: a dispatch
\* has called the first one once, before the other, and returned true
C15_Witness ==
  /\ kind = "dispatch"
  /\ pc = "done"
  /\ log[Len(log)].op = "return"
  /\ log[Len(log)].out = "true"
  /\ \E t \in EventTypes :
       /\ RegisteredFor(t) = <<F1, Cmd, F1>>
       /\ CalledNow(t) = <<F1, Cmd>>
       /\ log[Len(log)].type = t

\* ----------------------------------------------------------------------- C20
\* a step that is a call of addEventListener
JustRegistered == Len(log') = Len(log) + 1 /\ log'[Len(log')].op = "addEventListener"

\* every listener called was, when called, a listener of the type of the
\* event dispatched
OnlyOwnListeners ==
  \A i \in Idx : log[i].op = "listener" =>
    /\ \E j \in 1..(i - 1) :
         /\ log[j].op = "dispatchEvent"
         /\ log[j].type = log[i].type
         /\ \A k \in (j + 1)..(i - 1) : log[k].op \notin {"dispatchEvent", "return"}
    /\ \E k \in 1..Len(RegisteredFor(log[i].type)) :
         RegisteredFor(log[i].type)[k] = log[i].lst

\* C20: the registries of the event types are apart: a call of
\* addEventListener for a type leaves the listeners of every other type as
\* they were, a dispatch calls only listeners registered for the type of its
\* event, and no step of a dispatch changes any registry.
C20_RegistriesApart ==
  [][/\ JustRegistered =>
          \A t \in EventTypes \ {log'[Len(log')].type} : ListenersOf(t)' = ListenersOf(t)
     /\ ~JustRegistered => listeners' = listeners
     /\ OnlyOwnListeners']_vars

\* with one listener registered for beforeBuild and another for afterBuild,
\* the dispatch of afterBuild has called its own listener alone
C20_Witness ==
  /\ kind = "dispatch"
  /\ pc = "done"
  /\ ListenersOf("beforeBuild") = <<F1>>
  /\ ListenersOf("afterBuild") = <<Cmd>>
  /\ log[Len(log)].type = "afterBuild"
  /\ CalledNow("afterBuild") = <<Cmd>>
  /\ CalledNow("beforeBuild") = <<>>

\* ----------------------------------------------------------------------- C16
\* the directories of a path, from the root of the file system down
Directories(path) == SelectSeq(Segments(path, <<>>), LAMBDA g : g # <<>>)

\* the destination root is a directory below the source root
DestInsideSrc ==
  /\ IsPrefix(Directories(src), Directories(dest))
  /\ Len(Directories(src)) < Len(Directories(dest))

\* the destination root as a path of the source tree, the form in which the
\* loader meets it and update() is given changed files
DestInSource ==
  LET below == SubSeq(Directories(dest), Len(Directories(src)) + 1, Len(Directories(dest)))
  IN <<SEP>> \o Glue(below)

\* C16: for every working directory, source root and destination root, a
\* destination root that lies inside the source root is in the ignored path
\* set after construction.
C16_DestIgnoredWhenInside ==
  DestInsideSrc => \E i \in 1..Len(ignored) : ignored[i] = DestInSource

\* ----------------------------------------------------------------------- C17
\* the calls that change the page collection
Mutators == {"loadDirectory", "loadFile", "buildPages"}

\* the entries a step adds to the history, a new invocation starting it anew
Added ==
  IF IsPrefix(log, log')
  THEN {log'[i] : i \in (Len(log) + 1)..Len(log')}
  ELSE {log'[i] : i \in 1..Len(log')}

\* C17: however build() and update() are invoked on a site, while a save of
\* a SaveAll is in flight no step calls loadDirectory, loadFile or
\* buildPages.
C17_NoMutationWhileSaving ==
  [][(inflight # {} \/ waiting.inflight # {}) => \A e \in Added : e.op \notin Mutators]_vars

\* ----------------------------------------------------------------------- C18
\* the name and the extension of a segment: the extension runs from the last
\* dot, which is not the first character, to the end
ExtDot(g) ==
  LET dots == {i \in 2..Len(g) : g[i] = "."}
  IN IF dots = {} THEN Len(g) + 1 ELSE CHOOSE i \in dots : \A j \in dots : j <= i
NameOf(g) == SubSeq(g, 1, ExtDot(g) - 1)
ExtOf(g) == SubSeq(g, ExtDot(g) + 1, Len(g))

DataName == <<"_", "d", "a", "t", "a">>

\* the segments of a normalized path, the one before the first "/" left out
SegmentsOf(f) == Tail(PosixSegments(normalizePath(f), <<>>))

\* a segment named _data that is a directory, further segments following it
DataDirectory(f) ==
  \E k \in 1..(Len(SegmentsOf(f)) - 1) : SegmentsOf(f)[k] = DataName

\* the last segment is a file named _data with an extension
DataFileAny(f) ==
  /\ SegmentsOf(f) # <<>>
  /\ LET g == SegmentsOf(f)[Len(SegmentsOf(f))]
     IN NameOf(g) = DataName /\ ExtOf(g) # <<>>

\* the last segment is a file named _data with an extension of letters,
\* digits and underscores
DataFileWord(f) ==
  /\ SegmentsOf(f) # <<>>
  /\ LET g == SegmentsOf(f)[Len(SegmentsOf(f))]
     IN /\ NameOf(g) = DataName /\ ExtOf(g) # <<>>
        /\ \A i \in 1..Len(ExtOf(g)) : ExtOf(g)[i] \in WordChars

\* the changed files that were neither static nor ignored
Unclaimed == {i \in Idx : log[i].op = "file" /\ log[i].out \notin {"static", "ignored"}}

\* C18 as stated: such a file is DataReload exactly when a segment named
\* _data is a directory or a file with any extension.
C18_DataSegmentAnyExtension ==
  kind = "update" =>
    \A i \in Unclaimed :
      log[i].out = "data" <=> (DataDirectory(log[i].path) \/ DataFileAny(log[i].path))

\* C18 as amended: such a file is DataReload exactly when a segment named
\* _data is a directory followed by further segments, or is the last
\* segment as a file whose extension is made of letters, digits and
\* underscores; otherwise it goes to the HiddenSkip check, as does a segment
\* that merely starts with _data.
C18_DataSegmentWordExtension ==
  kind = "update" =>
    \A i \in Unclaimed :
      /\ log[i].out = "data" <=> (DataDirectory(log[i].path) \/ DataFileWord(log[i].path))
      /\ log[i].out # "data" => (log[i].out = "hidden" <=> HiddenP(log[i].path))

\* /_database/c was skipped as hidden and /b/_data.y reloaded as data
C18_Witness ==
  /\ kind = "update"
  /\ \E i, j \in Unclaimed :
       /\ log[i].path = FDatabase /\ log[i].out = "hidden"
       /\ log[j].path = FDataFile /\ log[j].out = "data"

\* ----------------------------------------------------------------------- C19
MetricNames == {BuildMetric, CopyMetric, LoadMetric, RenderMetric, SaveMetric}

IsStart(e, n) == e.op = "metrics.start" /\ e.type = n
IsStop(e, n) == e.op = "metrics.stop" /\ e.type = n

\* the timed phases that are open when entry i is written: started before it
\* and not stopped since
OpenAt(i) ==
  {n \in MetricNames :
     \E s \in 1..(i - 1) :
       /\ IsStart(log[s], n)
       /\ \A t \in (s + 1)..(i - 1) : ~IsStop(log[t], n)}

\* the calls of CopyStatic, LoadAll, RenderAll and SaveAll, and the metric
\* build() names for each
TimedOps == {"copyFile", "loadDirectory", "buildPages", "savePage", "saved"}

PhaseMetric(op) ==
  CASE op = "copyFile" -> CopyMetric
    [] op = "loadDirectory" -> LoadMetric
    [] op = "buildPages" -> RenderMetric
    [] op \in {"savePage", "saved"} -> SaveMetric

\* the calls of a build that are not timing: the events and the phases
UntimedOps == {"dispatchEvent", "clear", "copyFile", "loadDirectory", "buildPages"}

\* the phases of a build up to afterBuild, whatever options.metrics is
UntimedPlan ==
  <<EventMark(Ev("beforeBuild")), CallMark("clear")>>
  \o [i \in 1..Len(staticFiles) |->
        PhaseMark("copyFile", "-", staticFiles[i][1], staticFiles[i][2], NoFiles)]
  \o <<CallMark("loadDirectory"),
       PhaseMark("buildPages", "-", NoPath, NoPath, sourcePages),
       EventMark(Ev("beforeSave")),
       EventMark(Ev("afterBuild"))>>

\* every metric is started at most once and stopped at most once, after its
\* start; a phase metric is stopped only after every call of its phase, none
\* of which failed
StartedThenStopped ==
  \A t \in Idx : log[t].op \in {"metrics.start", "metrics.stop"} =>
    /\ log[t].type \in MetricNames
    /\ \A s \in 1..(t - 1) : ~(log[s].op = log[t].op /\ log[s].type = log[t].type)
    /\ log[t].op = "metrics.stop" =>
         /\ \E s \in 1..(t - 1) : IsStart(log[s], log[t].type)
         /\ \A i \in Idx :
              (log[i].op \in TimedOps /\ PhaseMetric(log[i].op) = log[t].type) =>
                (i < t /\ log[i].out # "throw")

\* C19 as stated: in a build every call of Clear, CopyStatic, LoadAll,
\* RenderAll and SaveAll is made inside a timed phase of its own, one
\* other than the phase of the whole build.
C19_EveryPhaseTimed ==
  kind = "build" =>
    \A i \in Idx : log[i].op \in TimedOps \cup {"clear"} =>
      OpenAt(i) \ {BuildMetric} # {}

\* C19 as amended: in a build every call of CopyStatic, LoadAll, RenderAll
\* and SaveAll is made inside the timed phase that build() names for it,
\* started before the phase and stopped after it has completed, while Clear
\* runs inside the phase of the whole build only; and whatever
\* options.metrics is, the phases opened so far are the first phases of the
\* same plan, and a build that completes has stopped every metric it started.
C19_PhasesTimedButClear ==
  kind = "build" =>
    /\ \A i \in Idx : log[i].op \in TimedOps =>
         OpenAt(i) = {BuildMetric, PhaseMetric(log[i].op)}
    /\ \A i \in Idx : log[i].op = "clear" => OpenAt(i) = {BuildMetric}
    /\ StartedThenStopped
    /\ IsPrefix(Marks(UntimedOps), UntimedPlan)
    /\ pc = "done" =>
         /\ Marks(UntimedOps) = UntimedPlan
         /\ \A n \in MetricNames :
              \E t \in Idx : IsStop(log[t], n)

\* a build that prints its metrics has completed, having cleared, copied,
\* loaded, rendered and saved
C19_Witness ==
  /\ kind = "build"
  /\ pc = "done"
  /\ options.metrics = "print"
  /\ \A op \in {"clear", "copyFile", "loadDirectory", "buildPages", "saved"} :
       \E i \in Idx : log[i].op = op

====
